---- MODULE Spec2Model ----
(***************************************************************************)
(* notebooks/22-lambdify.ipynb, cell by cell.                              *)
(*                                                                         *)
(* The notebook works with SymPy expressions in the symbols lambda_1 and   *)
(* lambda_2 and in the initial values x(0), y(0), z(0).  Here an           *)
(* expression is kept exactly: a polynomial in lambda_1, lambda_2 with     *)
(* integer coefficients over a power of (lambda_1 - lambda_2), and a       *)
(* solution is a table of such coefficients, one per compartment, per      *)
(* exponential exp(-rate*t) and per unknown it is linear in.  Numbers only *)
(* enter where the notebook lets them enter: in the call of the lambdified *)
(* function.  There the sample times are multiples of ln 2, so that        *)
(* exp(-rate*t) = 2^(-rate*t) is an exact rational for integer rates.      *)
(***************************************************************************)
EXTENDS Integers, Sequences, FiniteSets, TLC

\* ---------------------------------------------------------------- bounds
\* largest rate constant passed to the lambdified function
MaxRate == 2
\* largest initial concentration passed to the lambdified function
MaxInit == 1
\* number of sample times in tout
NumSamples == 2
\* largest array length of xarr and yarr
MaxLen == 1

\* ------------------------------------------------- exact rational numbers
RECURSIVE Gcd(_, _)
Gcd(a, b) == IF b = 0 THEN a ELSE Gcd(b, a % b)

Abs(a) == IF a < 0 THEN -a ELSE a

\* a float that is not a number: what numpy gives for a division by zero
NaN == <<0, 0>>

IsNum(q) == q[2] # 0

\* n/d in lowest terms with a positive denominator; NaN for d = 0
Rat(n, d) ==
    IF d = 0 THEN NaN
    ELSE LET g == Gcd(Abs(n), Abs(d))
             s == IF d < 0 THEN -1 ELSE 1
         IN  <<s * (n \div g), s * (d \div g)>>

RAdd(p, q) ==
    IF ~IsNum(p) \/ ~IsNum(q) THEN NaN
    ELSE LET g == Gcd(p[2], q[2])
         IN  Rat(p[1] * (q[2] \div g) + q[1] * (p[2] \div g), (p[2] \div g) * q[2])

RMul(p, q) ==
    IF ~IsNum(p) \/ ~IsNum(q) THEN NaN
    ELSE LET g1 == Gcd(Abs(p[1]), q[2])
             g2 == Gcd(Abs(q[1]), p[2])
             h1 == IF g1 = 0 THEN 1 ELSE g1
             h2 == IF g2 = 0 THEN 1 ELSE g2
         IN  Rat((p[1] \div h1) * (q[1] \div h2), (p[2] \div h2) * (q[2] \div h1))

RInt(n) == <<n, 1>>

\* p <= q for two numbers
RLeq(p, q) == RAdd(p, <<-q[1], q[2]>>)[1] <= 0

RECURSIVE Pow(_, _)
Pow(b, e) == IF e = 0 THEN 1 ELSE b * Pow(b, e - 1)

\* exp(-rate * t) for t given in units of ln 2
Exp2(rate, t) ==
    IF rate * t >= 0 THEN Rat(1, Pow(2, rate * t)) ELSE Rat(Pow(2, -(rate * t)), 1)

\* ------------------------------ polynomials in lambda_1, lambda_2 over Z
\* a polynomial is the set of its terms <<i, j, c>>, c # 0 the coefficient
\* of lambda_1^i * lambda_2^j
Coef(p, i, j) ==
    LET S == {t \in p : t[1] = i /\ t[2] = j}
    IN  IF S = {} THEN 0 ELSE (CHOOSE t \in S : TRUE)[3]

PZero == {}
PConst(c) == IF c = 0 THEN {} ELSE {<<0, 0, c>>}
PL1 == {<<1, 0, 1>>}
PL2 == {<<0, 1, 1>>}

Terms(T) == {t \in T : t[3] # 0}

\* the sum of the third components of a set of triples
RECURSIVE SumOver(_)
SumOver(S) ==
    IF S = {} THEN 0
    ELSE LET e == CHOOSE e \in S : TRUE IN e[3] + SumOver(S \ {e})

PAdd(p, q) ==
    Terms({<<m[1], m[2], Coef(p, m[1], m[2]) + Coef(q, m[1], m[2])>> :
           m \in {<<t[1], t[2]>> : t \in p \cup q}})
PNeg(p) == {<<t[1], t[2], -t[3]>> : t \in p}
PSub(p, q) == PAdd(p, PNeg(q))

PMul(p, q) ==
    Terms({<<m[1], m[2],
             SumOver({<<w[1], w[2], w[1][3] * w[2][3]>> :
                      w \in {w \in p \X q : /\ w[1][1] + w[2][1] = m[1]
                                            /\ w[1][2] + w[2][2] = m[2]}})>> :
           m \in {<<w[1][1] + w[2][1], w[1][2] + w[2][2]>> : w \in p \X q}})

\* lambda_1 - lambda_2, the one denominator the solution has
PD == {<<1, 0, 1>>, <<0, 1, -1>>}

RECURSIVE PPowD(_)
PPowD(k) == IF k = 0 THEN PConst(1) ELSE PMul(PD, PPowD(k - 1))

\* p at lambda_1 = a, lambda_2 = b
PEval(p, a, b) == SumOver({<<t[1], t[2], t[3] * Pow(a, t[1]) * Pow(b, t[2])>> : t \in p})

\* p is a multiple of (lambda_1 - lambda_2): it vanishes on lambda_1 = lambda_2
PDivisible(p) ==
    \A d \in {t[1] + t[2] : t \in p} : SumOver({t \in p : t[1] + t[2] = d}) = 0

\* the quotient p / (lambda_1 - lambda_2) of a multiple p, coefficient by
\* coefficient: q[i, j] = q[i-1, j+1] - p[i, j+1]
RECURSIVE PQuot(_, _, _)
PQuot(p, i, j) ==
    IF i < 0 \/ \A t \in p : t[2] <= j THEN 0
    ELSE PQuot(p, i - 1, j + 1) - Coef(p, i, j + 1)

PDivD(p) ==
    Terms({<<m[1], m[2], PQuot(p, m[1], m[2])>> :
           m \in UNION {{<<t[1], t[2] - 1>>, <<t[1] - 1, t[2]>>} : t \in p}
                 \cap (Nat \X Nat)})

\* --------------------- expressions: n / (lambda_1 - lambda_2)^d, reduced
RECURSIVE Reduce(_, _)
Reduce(n, d) ==
    IF d = 0 THEN [n |-> n, d |-> 0]
    ELSE IF n = PZero THEN [n |-> PZero, d |-> 0]
    ELSE IF PDivisible(n) THEN Reduce(PDivD(n), d - 1)
    ELSE [n |-> n, d |-> d]

EPoly(p) == [n |-> p, d |-> 0]
EInt(c) == EPoly(PConst(c))
EZero == EInt(0)

EAdd(a, b) ==
    LET d == IF a.d >= b.d THEN a.d ELSE b.d
    IN  Reduce(PAdd(PMul(a.n, PPowD(d - a.d)), PMul(b.n, PPowD(d - b.d))), d)

EMul(a, b) == Reduce(PMul(a.n, b.n), a.d + b.d)
ENeg(a) == [n |-> PNeg(a.n), d |-> a.d]
ESub(a, b) == EAdd(a, ENeg(b))

\* a / p for a polynomial p that is 1 or (lambda_1 - lambda_2)
EDiv(a, p) == IF p = PD THEN Reduce(a.n, a.d + 1) ELSE a

\* the float the expression evaluates to at lambda_1 = a, lambda_2 = b
EEval(e, a, b) == Rat(PEval(e.n, a, b), Pow(a - b, e.d))

\* ------------------------------------------------------ array shapes
\* the lengths of the notebook's two arrays
XLen == 5
YLen == 7

XLens == (1..MaxLen) \cup {XLen}
YLens == (1..MaxLen) \cup {YLen}

RECURSIVE Size(_)
Size(s) == IF s = <<>> THEN 1 ELSE Head(s) * Size(Tail(s))

\* numpy's broadcasting of two shapes: aligned at the last axis, a missing
\* or a 1-long axis stretches to the other's length
PadTo(s, n) == [i \in 1..n |-> IF i <= n - Len(s) THEN 1 ELSE s[i - (n - Len(s))]]

Max(a, b) == IF a >= b THEN a ELSE b

Compatible(s, t) ==
    LET n == Max(Len(s), Len(t))
    IN  \A i \in 1..n : PadTo(s, n)[i] = PadTo(t, n)[i]
                          \/ PadTo(s, n)[i] = 1 \/ PadTo(t, n)[i] = 1

Broadcast_first(s, t) == PadTo(s, Max(Len(s), Len(t)))

Broadcast(s, t) ==
    LET n == Max(Len(s), Len(t))
    IN  [i \in 1..n |-> Max(PadTo(s, n)[i], PadTo(t, n)[i])]

\* the shape of expr = 3*x**2 + log(x**2 + y**2 + 1) evaluated elementwise
\* on arrays of shapes sx and sy; the literals are scalars
Scalar == <<>>

ShapeOfExpr(sx, sy) ==
    LET x2 == Broadcast(sx, Scalar)                         \* x**2
        y2 == Broadcast(sy, Scalar)                         \* y**2
        lg == Broadcast(Broadcast(x2, y2), Scalar)          \* log(x**2 + y**2 + 1)
    IN  Broadcast(Broadcast(Scalar, x2), lg)                \* 3*x**2 + log(...)

\* the function lambdify([x, y], expr) returns, on the shapes of its arguments
h(sx, sy) == ShapeOfExpr(sx, sy)

\* np.linspace(a, b, n)
linspace(n) == <<n>>

\* arr.reshape(shape): the same elements, so the same size
reshape(s, shape) == IF Size(s) = Size(shape) THEN shape ELSE s

\* --------------------------------------------------- the decay chain
Comps == 1..3
Exps == {"E1", "E2", "E0"}

\* the rate of exp(-rate*t): lambda_1, lambda_2, and 0 for the constant
RateOf(e) == IF e = "E1" THEN PL1 ELSE IF e = "E2" THEN PL2 ELSE PZero

\* exprs = -l1*x, l1*x - l2*y, l2*y: row i holds the coefficients of x, y, z
exprs_leak ==
    << <<ENeg(EPoly(PL1)), EZero, EZero>>,
       <<EPoly(PL1), ENeg(EPoly(PL2)), EZero>>,
       <<EZero, EPoly(PL1), EZero>> >>

exprs ==
    << <<ENeg(EPoly(PL1)), EZero, EZero>>,
       <<EPoly(PL1), ENeg(EPoly(PL2)), EZero>>,
       <<EZero, EPoly(PL2), EZero>> >>

\* eqs = [Eq(diff, expr)]: the i-th equation is d funcs[i] / dt = rhs
MakeEqs == [i \in Comps |-> [lhs |-> i, rhs |-> exprs[i]]]

\* the eigenvector of the chain's matrix that goes with exp(-rate*t), as
\* SymPy reduces it for a chain whose last compartment does not decay: the
\* first goes with -lambda_1, the second with -lambda_2, the third with 0
Eigenvector_typo(system, e) ==
    IF e = "E1"
    THEN <<ESub(ENeg(system[1].rhs[1]), ENeg(system[2].rhs[2])),
           ENeg(system[2].rhs[1]), system[2].rhs[1]>>
    ELSE IF e = "E2" THEN <<EZero, EInt(1), EInt(-1)>>
    ELSE <<EZero, EZero, EInt(1)>>

Eigenvector(system, e) ==
    IF e = "E1"
    THEN <<ESub(ENeg(system[1].rhs[1]), ENeg(system[2].rhs[2])),
           ENeg(system[2].rhs[1]), system[3].rhs[2]>>
    ELSE IF e = "E2" THEN <<EZero, EInt(1), EInt(-1)>>
    ELSE <<EZero, EZero, EInt(1)>>

\* the integration constant SymPy attaches to exp(-rate*t): C1, C2, C3
ConstOf(e) == IF e = "E1" THEN 1 ELSE IF e = "E2" THEN 2 ELSE 3

\* sym.dsolve(eqs): the general solution, funcs[i] = sum over the
\* exponentials e and the constants C_k of table[i][e][k] * C_k * exp(-rate_e*t)
dsolve(system) ==
    [i \in Comps |-> [e \in Exps |-> [k \in Comps |->
        IF k = ConstOf(e) THEN Eigenvector(system, e)[i] ELSE EZero]]]

\* the free symbols of the solutions that are not in symbs
FreeConstants(sols) ==
    {k \in Comps : \E i \in Comps, e \in Exps : sols[i][e][k] # EZero}

RECURSIVE ESum(_, _)
ESum(S, f) ==
    IF S = {} THEN EZero
    ELSE LET e == CHOOSE e \in S : TRUE IN EAdd(f[e], ESum(S \ {e}, f))

\* sol.subs(t, 0): every exponential becomes 1, so the coefficients of one
\* unknown add up
SubsT0(sol) == [i \in Comps |-> [k \in Comps |-> ESum(Exps, [e \in Exps |-> sol[i][e][k]])]]

\* sym.solve(initial_values, integration_constants): the equations
\* funcs[i](0) = sum_k M[i][k] * C_k solved for the C_k by forward
\* substitution; row k of the result holds C_k's coefficients of x(0), y(0), z(0)
RECURSIVE SolveRow_sign(_, _)
SolveRow_sign(M, k) ==
    [j \in Comps |->
        LET known == {m \in Comps : m < k}
            rest == ESum(known, [m \in known |-> EMul(M[k][m], SolveRow_sign(M, m)[j])])
        IN  EDiv(EAdd(IF j = k THEN EInt(1) ELSE EZero, rest), M[k][k].n)]

solve_sign(M, consts) ==
    [k \in Comps |-> IF k \in consts THEN SolveRow_sign(M, k) ELSE [j \in Comps |-> EZero]]

RECURSIVE SolveRow(_, _)
SolveRow(M, k) ==
    [j \in Comps |->
        LET known == {m \in Comps : m < k}
            rest == ESum(known, [m \in known |-> EMul(M[k][m], SolveRow(M, m)[j])])
        IN  EDiv(ESub(IF j = k THEN EInt(1) ELSE EZero, rest), M[k][k].n)]

solve(M, consts) ==
    [k \in Comps |-> IF k \in consts THEN SolveRow(M, k) ELSE [j \in Comps |-> EZero]]

\* sol.subs(const_exprs): the constants replaced by their expressions in the
\* initial values
SubsConsts_transposed(sols, cexprs) ==
    [i \in Comps |-> [e \in Exps |-> [j \in Comps |->
        ESum(Comps, [k \in Comps |-> EMul(sols[i][e][k], cexprs[j][k])])]]]

SubsConsts(sols, cexprs) ==
    [i \in Comps |-> [e \in Exps |-> [j \in Comps |->
        ESum(Comps, [k \in Comps |-> EMul(sols[i][e][k], cexprs[k][j])])]]]

\* --------------------------------------------------- sample times
\* np.logspace(0, stop, n): n times in geometric progression from 10**0 = 1;
\* here the ratio is 2 and the unit of time is ln 2
logspace(n) == [k \in 1..n |-> Pow(2, k - 1)]

RECURSIVE RSum(_, _)
RSum(S, f) ==
    IF S = {} THEN RInt(0)
    ELSE LET e == CHOOSE e \in S : TRUE IN RAdd(f[e], RSum(S \ {e}, f))

\* the lambdified closed form of compartment i at time t for rates l and
\* initial values c: the sum of the terms the expression has
ClosedForm(sol, i, t, l, c) ==
    LET present == {ej \in Exps \X Comps : sol[i][ej[1]][ej[2]] # EZero}
    IN  RSum(present, [ej \in present |->
            RMul(RMul(EEval(sol[i][ej[1]][ej[2]], l[1], l[2]), RInt(c[ej[2]])),
                 Exp2(PEval(RateOf(ej[1]), l[1], l[2]), t))])

\* the numeric evaluation helper: one sequence of values per compartment,
\* in compartment order, aligned with the sample times
Evaluate_reversed(sol, times, l, c) ==
    [i \in Comps |-> [k \in 1..Len(times) |->
        ClosedForm(sol, i, times[Len(times) + 1 - k], l, c)]]

Evaluate(sol, times, l, c) ==
    [i \in Comps |-> [k \in 1..Len(times) |-> ClosedForm(sol, i, times[k], l, c)]]

\* ----------------------------------------------------- the notebook
Names ==
    {"sym", "x", "y", "expr", "math", "f", "g", "np", "xarr", "h", "out", "yarr",
     "out2", "z", "z1", "z2", "z3", "expr2", "func2", "symbs", "t", "l1", "l2",
     "x0", "y0", "z0", "funcs", "inits", "diffs", "exprs", "eqs", "solutions",
     "integration_constants", "initial_values", "const_exprs", "analytic",
     "log10", "year_s", "tout", "yout", "plt", "fig", "ax", "_"}

\* the code cells, top to bottom
NumCells == 20
CellOrder_decay_first ==
    [c \in 1..NumCells |-> IF c = 10 THEN 11 ELSE IF c = 11 THEN 10 ELSE c]

CellOrder == [c \in 1..NumCells |-> c]

\* the names a cell reads before it binds them itself
Reads(c) ==
    CASE c = 1 -> {}
      [] c = 2 -> {"expr", "x", "y"}
      [] c = 3 -> {"expr", "x", "y"}
      [] c = 4 -> {}
      [] c = 5 -> {"f", "math"}
      [] c = 6 -> {"sym", "x", "y", "expr"}
      [] c = 7 -> {"g"}
      [] c = 8 -> {"sym", "x", "y", "expr"}
      [] c = 9 -> {"np", "h", "xarr"}
      [] c = 10 -> {"sym", "x", "y"}
      [] c = 11 -> {"sym"}
      [] c = 12 -> {"sym", "eqs"}
      [] c = 13 -> {"solutions", "symbs"}
      [] c = 14 -> {"solutions", "t"}
      [] c = 15 -> {"sym", "initial_values", "integration_constants"}
      [] c = 16 -> {"solutions", "const_exprs"}
      [] c = 17 -> {"np"}
      [] c = 18 -> {}
      [] c = 19 -> {}
      [] c = 20 -> {"np", "tout", "yout"}

\* the names the code loaded by %exercise exercise_Tc99.py reads and binds
ExerciseReads == {"analytic", "tout"}
ExerciseBinds == {"yout"}

\* the arguments the lambdified function is called with: the rates and the
\* first initial value may be negative, the other two are not
RateVals == (-1)..MaxRate
InitVals == (-1)..MaxInit
NonNegInitVals == 0..MaxInit

VARIABLES
    pc,                     \* position in CellOrder of the next cell to run
    ns,                     \* the kernel's namespace: name -> kind of value
    loaded,                 \* names bound by code loaded with %exercise
    missing,                \* names read by a cell that no cell had bound
    raised,                 \* the exception the last cell ended with
    lambdified,             \* the lambdify calls: function name, kinds of x and y
    xarr, yarr, out, out2,  \* shapes of the arrays
    eqs, solutions, integration_constants, initial_values, const_exprs, analytic,
    tout,                   \* the sample times
    call,                   \* the rates and initial values passed with tout
    yout                    \* the values returned for tout

shapes == <<xarr, yarr, out, out2>>
chain == <<eqs, solutions, integration_constants, initial_values, const_exprs, analytic>>
numeric == <<tout, call, yout>>
vars == <<pc, ns, loaded, missing, raised, lambdified, shapes, chain, numeric>>

Bound == {n \in Names : ns[n] # "unbound"}

\* the namespace after binding the names of b
Bind(b) == [n \in Names |-> IF n \in DOMAIN b THEN b[n] ELSE ns[n]]

Init ==
    /\ pc = 1
    /\ ns = [n \in Names |-> "unbound"]
    /\ loaded = {}
    /\ missing = {}
    /\ raised = "none"
    /\ lambdified = {}
    /\ xarr = <<>> /\ yarr = <<>> /\ out = <<>> /\ out2 = <<>>
    /\ eqs = <<>> /\ solutions = <<>> /\ integration_constants = {}
    /\ initial_values = <<>> /\ const_exprs = <<>> /\ analytic = <<>>
    /\ tout = <<>> /\ call = <<>> /\ yout = <<>>

\* cell c is the next to run; a name it reads that is unbound raises NameError
\* and the cell binds nothing
Ok(c) == Reads(c) \subseteq Bound

Run(c) ==
    /\ pc <= NumCells
    /\ CellOrder[pc] = c
    /\ pc' = pc + 1
    /\ missing' = missing \cup (Reads(c) \ (Bound \ loaded))
    /\ raised' = IF Ok(c) THEN "none" ELSE "NameError"

\* a cell that only binds names
Plain(c, b) ==
    /\ Run(c)
    /\ ns' = IF Ok(c) THEN Bind(b) ELSE ns
    /\ UNCHANGED <<loaded, lambdified, shapes, chain, numeric>>

\* import sympy as sym; x, y = sym.symbols('x y'); expr = ...
DefineExpr ==
    Plain(1, "sym" :> "module" @@ "x" :> "Symbol" @@ "y" :> "Symbol" @@ "expr" :> "Expr")

\* expr.subs({x: 17, y: 42}).evalf()
SubsEvalf == Plain(2, <<>>)

\* %timeit expr.subs({x: 17, y: 42}).evalf()
TimeitSubs == Plain(3, <<>>)

\* import math; f = lambda x, y: ...; f(17, 42)
DefineLambda == Plain(4, "math" :> "module" @@ "f" :> "function")

\* %timeit f(17, 42)
TimeitLambda == Plain(5, <<>>)

\* a cell that calls sym.lambdify([x, y, ...], ...) and binds the result to fn
Lambdify(c, fn, b) ==
    /\ Run(c)
    /\ ns' = IF Ok(c) THEN Bind(b) ELSE ns
    /\ lambdified' = IF Ok(c)
                     THEN lambdified \cup {[fn |-> fn, x |-> ns["x"], y |-> ns["y"]]}
                     ELSE lambdified
    /\ UNCHANGED <<loaded, chain, numeric>>

\* g = sym.lambdify([x, y], expr, modules=['math']); g(17, 42)
LambdifyMath ==
    /\ Lambdify(6, "g", "g" :> "function")
    /\ UNCHANGED shapes

\* %timeit g(17, 42)
TimeitG == Plain(7, <<>>)

\* xarr = np.linspace(17, 18, 5); h = sym.lambdify([x, y], expr); out = h(xarr, 42)
LambdifyNumpy ==
    \E n \in XLens :
        /\ Lambdify(8, "h", "np" :> "module" @@ "xarr" :> "ndarray"
                            @@ "h" :> "function" @@ "out" :> "ndarray")
        /\ IF Ok(8)
           THEN /\ xarr' = linspace(n)
                /\ out' = h(linspace(n), Scalar)
           ELSE UNCHANGED <<xarr, out>>
        /\ UNCHANGED <<yarr, out2>>

\* yarr = np.linspace(42, 43, 7).reshape((1, 7)); out2 = h(xarr.reshape((5, 1)), yarr)
Broadcasting ==
    \E m \in YLens :
        /\ Run(9)
        /\ IF Ok(9)
           THEN /\ ns' = Bind("yarr" :> "ndarray" @@ "out2" :> "ndarray")
                /\ yarr' = reshape(linspace(m), <<1, m>>)
                /\ out2' = h(reshape(xarr, <<Size(xarr), 1>>), reshape(linspace(m), <<1, m>>))
           ELSE UNCHANGED <<ns, yarr, out2>>
        /\ UNCHANGED <<loaded, lambdified, xarr, out, chain, numeric>>

\* z = z1, z2, z3 = sym.symbols('z:3'); expr2 = x*y*(z1 + z2 + z3);
\* func2 = sym.lambdify([x, y, z], expr2); func2(1, 2, (3, 4, 5))
Signature ==
    /\ Lambdify(10, "func2", "z" :> "tuple" @@ "z1" :> "Symbol" @@ "z2" :> "Symbol"
                             @@ "z3" :> "Symbol" @@ "expr2" :> "Expr"
                             @@ "func2" :> "function")
    /\ UNCHANGED shapes

\* symbs = t, l1, l2, x0, y0, z0 = sym.symbols(...);
\* funcs = x, y, z = [sym.Function(s)(t) for s in 'xyz']; inits; diffs; exprs; eqs
DecayEquations ==
    /\ Run(11)
    /\ IF Ok(11)
       THEN /\ ns' = Bind("symbs" :> "tuple" @@ "t" :> "Symbol" @@ "l1" :> "Symbol"
                          @@ "l2" :> "Symbol" @@ "x0" :> "Symbol" @@ "y0" :> "Symbol"
                          @@ "z0" :> "Symbol" @@ "funcs" :> "list"
                          @@ "x" :> "AppliedUndef" @@ "y" :> "AppliedUndef"
                          @@ "z" :> "AppliedUndef" @@ "inits" :> "list"
                          @@ "diffs" :> "list" @@ "exprs" :> "tuple" @@ "eqs" :> "list")
            /\ eqs' = MakeEqs
       ELSE UNCHANGED <<ns, eqs>>
    /\ UNCHANGED <<loaded, lambdified, shapes, numeric, solutions,
                   integration_constants, initial_values, const_exprs, analytic>>

\* solutions = sym.dsolve(eqs)
Dsolve ==
    /\ Run(12)
    /\ IF Ok(12)
       THEN /\ ns' = Bind("solutions" :> "list")
            /\ solutions' = dsolve(eqs)
       ELSE UNCHANGED <<ns, solutions>>
    /\ UNCHANGED <<loaded, lambdified, shapes, numeric, eqs,
                   integration_constants, initial_values, const_exprs, analytic>>

\* integration_constants = set.union(*[sol.free_symbols ...]) - set(symbs)
IntegrationConstants ==
    /\ Run(13)
    /\ IF Ok(13)
       THEN /\ ns' = Bind("integration_constants" :> "set")
            /\ integration_constants' = FreeConstants(solutions)
       ELSE UNCHANGED <<ns, integration_constants>>
    /\ UNCHANGED <<loaded, lambdified, shapes, numeric, eqs, solutions,
                   initial_values, const_exprs, analytic>>

\* initial_values = [sol.subs(t, 0) for sol in solutions]
InitialValues ==
    /\ Run(14)
    /\ IF Ok(14)
       THEN /\ ns' = Bind("initial_values" :> "list")
            /\ initial_values' = SubsT0(solutions)
       ELSE UNCHANGED <<ns, initial_values>>
    /\ UNCHANGED <<loaded, lambdified, shapes, numeric, eqs, solutions,
                   integration_constants, const_exprs, analytic>>

\* const_exprs = sym.solve(initial_values, integration_constants)
SolveConstants ==
    /\ Run(15)
    /\ IF Ok(15)
       THEN /\ ns' = Bind("const_exprs" :> "dict")
            /\ const_exprs' = solve(initial_values, integration_constants)
       ELSE UNCHANGED <<ns, const_exprs>>
    /\ UNCHANGED <<loaded, lambdified, shapes, numeric, eqs, solutions,
                   integration_constants, initial_values, analytic>>

\* analytic = [sol.subs(const_exprs) for sol in solutions]
Analytic ==
    /\ Run(16)
    /\ IF Ok(16)
       THEN /\ ns' = Bind("analytic" :> "list")
            /\ analytic' = SubsConsts(solutions, const_exprs)
       ELSE UNCHANGED <<ns, analytic>>
    /\ UNCHANGED <<loaded, lambdified, shapes, numeric, eqs, solutions,
                   integration_constants, initial_values, const_exprs>>

\* from math import log10; year_s = ...; tout = np.logspace(0, ..., 500)
SampleTimes ==
    /\ Run(17)
    /\ IF Ok(17)
       THEN /\ ns' = Bind("log10" :> "function" @@ "year_s" :> "int" @@ "tout" :> "ndarray")
            /\ tout' = logspace(NumSamples)
       ELSE UNCHANGED <<ns, tout>>
    /\ UNCHANGED <<loaded, lambdified, shapes, chain, call, yout>>

\* %load_ext scipy2017codegen.exercise
LoadExt == Plain(18, <<>>)

\* %exercise exercise_Tc99.py: the loaded code evaluates the closed forms on
\* tout for the rates and initial values it is given, and binds yout
Exercise ==
    \E a, b \in RateVals, x0 \in InitVals, y0, z0 \in NonNegInitVals :
        /\ Run(19)
        /\ IF Ok(19) /\ ExerciseReads \subseteq Bound
           THEN /\ ns' = Bind([n \in ExerciseBinds |-> "list"])
                /\ loaded' = loaded \cup ExerciseBinds
                /\ call' = <<a, b, x0, y0, z0>>
                /\ yout' = Evaluate(analytic, tout, <<a, b>>, <<x0, y0, z0>>)
           ELSE UNCHANGED <<ns, loaded, call, yout>>
        /\ UNCHANGED <<lambdified, shapes, chain, tout>>

\* import matplotlib.pyplot as plt; ...; ax.loglog(tout.reshape(...), np.array(yout).T)
Plot ==
    Plain(20, "plt" :> "module" @@ "fig" :> "object" @@ "ax" :> "object" @@ "_" :> "list")

Next ==
    \/ DefineExpr \/ SubsEvalf \/ TimeitSubs \/ DefineLambda \/ TimeitLambda
    \/ LambdifyMath \/ TimeitG \/ LambdifyNumpy \/ Broadcasting \/ Signature
    \/ DecayEquations \/ Dsolve \/ IntegrationConstants \/ InitialValues
    \/ SolveConstants \/ Analytic \/ SampleTimes \/ LoadExt \/ Exercise \/ Plot

Spec == Init /\ [][Next]_vars

\* ------------------------------------------------------------ claims
IsBound(n) == ns[n] # "unbound"

Unit(i, j) == IF i = j THEN EInt(1) ELSE EZero

\* the loaded code has called the lambdified function
Called == call # <<>>

\* the closed form of compartment i at time t for the arguments of the call
AtCall(i, t) ==
    ClosedForm(analytic, i, t, <<call[1], call[2]>>, <<call[3], call[4], call[5]>>)

Lambda1 == [m |-> 32, e |-> -6]
Lambda2 == [m |-> 104, e |-> -15]

RECURSIVE DecNorm(_)
DecNorm(r) ==
    IF r.m = 0 THEN [m |-> 0, e |-> 0]
    ELSE IF r.m % 10 = 0 THEN DecNorm([m |-> r.m \div 10, e |-> r.e + 1])
    ELSE r

DecPositive(r) == r.m > 0
DecEqual(r, s) == DecNorm(r) = DecNorm(s)

\* the limit for t -> infinity of the closed form of compartment i with rates
\* r1, r2 and initial values c: a term with exp(-r*t), r > 0, and a finite
\* coefficient vanishes, a constant term stays; def is FALSE when a term
\* neither vanishes nor is a plain number
Limit(sol, i, r1, r2, c) ==
    LET present == {ej \in Exps \X Comps : sol[i][ej[1]][ej[2]] # EZero /\ c[ej[2]] # 0}
        finite(a) == a.d = 0 \/ ~DecEqual(r1, r2)
        decays(ej) ==
            /\ finite(sol[i][ej[1]][ej[2]])
            /\ \/ ej[1] = "E1" /\ DecPositive(r1)
               \/ ej[1] = "E2" /\ DecPositive(r2)
        number(ej) ==
            /\ ej[1] = "E0"
            /\ sol[i][ej[1]][ej[2]].d = 0
            /\ \A w \in sol[i][ej[1]][ej[2]].n : w[1] = 0 /\ w[2] = 0
        stay == {ej \in present : number(ej)}
    IN  [def |-> \A ej \in present : decays(ej) \/ number(ej),
         val |-> SumOver({<<ej[1], ej[2], Coef(sol[i][ej[1]][ej[2]].n, 0, 0) * c[ej[2]]>> :
                          ej \in stay})]

\* C3: with the rates 3.2e-5 and 1.04e-13 and the initial values [1, 0, 0]
\* the closed forms tend to [0, 0, 1] as t grows without bound
C3_AllMassEndsInLast ==
    IsBound("analytic") =>
        /\ Limit(analytic, 1, Lambda1, Lambda2, <<1, 0, 0>>) = [def |-> TRUE, val |-> 0]
        /\ Limit(analytic, 2, Lambda1, Lambda2, <<1, 0, 0>>) = [def |-> TRUE, val |-> 0]
        /\ Limit(analytic, 3, Lambda1, Lambda2, <<1, 0, 0>>) = [def |-> TRUE, val |-> 1]

C3_Witness ==
    /\ IsBound("analytic")
    /\ analytic[3]["E0"][1] = EInt(1)
    /\ analytic[2]["E2"][1] # EZero
    /\ ~DecEqual(Lambda1, Lambda2)

\* the rate of compartment i: lambda_1, lambda_2, 0
ChainRate(i) == IF i = 1 THEN EPoly(PL1) ELSE IF i = 2 THEN EPoly(PL2) ELSE EZero

\* d/dt of a * exp(-rate_e*t) is -rate_e * a * exp(-rate_e*t)
Derivative(sol, i, e, j) == EMul(ENeg(EPoly(RateOf(e))), sol[i][e][j])

Inflow(sol, i, e, j) == IF i = 1 THEN EZero ELSE EMul(ChainRate(i - 1), sol[i - 1][e][j])

\* C4: every closed form satisfies its equation, term by term:
\* d c_i/dt = inflow_i - rate_i * c_i with inflow_i = rate_(i-1) * c_(i-1),
\* and compartment 0 is c_0(0) * exp(-rate_0*t)
C4_OdeSatisfied ==
    IsBound("analytic") =>
        /\ \A i \in Comps, e \in Exps, j \in Comps :
              Derivative(analytic, i, e, j)
                  = ESub(Inflow(analytic, i, e, j), EMul(ChainRate(i), analytic[i][e][j]))
        /\ \A e \in Exps, j \in Comps :
              analytic[1][e][j] = IF e = "E1" /\ j = 1 THEN EInt(1) ELSE EZero

C4_Witness ==
    /\ IsBound("analytic")
    /\ Derivative(analytic, 2, "E1", 1) # EZero
    /\ Inflow(analytic, 3, "E2", 2) # EZero

EqualRates == Called /\ call[1] = call[2] /\ call[1] >= 0

\* C5 as stated: called with two equal rates the evaluation either raises
\* DegenerateRatesError or returns the values of the correct closed form,
\* which are numbers
C5_DegenerateHandled ==
    EqualRates =>
        \/ raised = "DegenerateRatesError"
        \/ \A i \in Comps, k \in 1..Len(tout) : IsNum(yout[i][k])

Malformed == Called /\ \E k \in 1..5 : call[k] < 0

\* C6 as stated: called with a negative rate or a negative initial value the
\* evaluation raises InvalidChainError and returns nothing
C6_MalformedRejected ==
    Malformed => raised = "InvalidChainError" /\ ~IsBound("yout")

\* C7: out has the shape (n,) of xarr, and out2 the shape (n, m) for xarr
\* reshaped to (n, 1) and yarr of shape (1, m)
C7_BroadcastShape ==
    /\ IsBound("out") => xarr = <<Size(xarr)>> /\ out = <<Size(xarr)>>
    /\ IsBound("out2") => yarr = <<1, Size(yarr)>> /\ out2 = <<Size(xarr), Size(yarr)>>

C7_Witness ==
    /\ IsBound("out2")
    /\ xarr = <<XLen>>
    /\ yarr = <<1, YLen>>
    /\ out2 = <<XLen, YLen>>

\* C8: yout holds one sequence per compartment, in compartment order, each as
\* long as tout, its k-th value the compartment's concentration at tout[k]
\* (for the first compartment that is x(0) * exp(-l1 * tout[k]))
C8_AlignedWithTimes ==
    IsBound("yout") =>
        /\ DOMAIN yout = Comps
        /\ \A i \in Comps :
              /\ Len(yout[i]) = Len(tout)
              /\ \A k \in 1..Len(tout) :
                    yout[i][k] = AtCall(i, tout[k])
        /\ \A k \in 1..Len(tout) :
              yout[1][k] = RMul(RInt(call[3]), Exp2(call[1], tout[k]))

C8_Witness ==
    /\ IsBound("yout")
    /\ Len(tout) >= 2
    /\ call = <<2, 1, 1, 0, 0>>
    /\ yout[1][1] # yout[1][2]
    /\ yout[2][1] = Rat(1, 2)

Valid == Called /\ \A k \in 1..5 : call[k] >= 0

\* C9 as stated: for non-negative rates and initial values every value is a
\* non-negative number, the first compartment never increases and the last
\* never decreases
C9_SignsAndMonotony ==
    Valid =>
        /\ \A i \in Comps, k \in 1..Len(tout) : IsNum(yout[i][k]) /\ yout[i][k][1] >= 0
        /\ \A k \in 1..(Len(tout) - 1) :
              /\ RLeq(yout[1][k + 1], yout[1][k])
              /\ RLeq(yout[3][k], yout[3][k + 1])

\* C10: run top to bottom, the only name a cell reads that no cell of the
\* notebook binds is yout, read by the last cell and bound by the code the
\* %exercise cell loads; no cell ends in NameError; and g, h and func2 are
\* lambdified while x and y are still the plain symbols
C10_NamesBoundInOrder ==
    /\ missing \subseteq {"yout"}
    /\ raised = "none"
    /\ \A r \in lambdified : r.x = "Symbol" /\ r.y = "Symbol"
    /\ pc > NumCells =>
          /\ missing = {"yout"}
          /\ "yout" \in loaded
          /\ {r.fn : r \in lambdified} = {"g", "h", "func2"}
          /\ ns["x"] = "AppliedUndef" /\ ns["y"] = "AppliedUndef"

C10_Witness ==
    /\ pc > NumCells
    /\ missing = {"yout"}
    /\ Cardinality(lambdified) = 3
====
